---- MODULE Spec2Model ----
(***************************************************************************)
(* Model of pngx_upload.py: the command line entry point main(), the batch *)
(* runner process_handwriting_dataset() and the form construction of       *)
(* PaperlessNGXUploader.upload_document().                                 *)
(*                                                                         *)
(* Strings are sequences of one-character strings.  The network, the       *)
(* dataset hub, the image library and the terminal are the environment:    *)
(* every outcome they can produce is a nondeterministic choice.            *)
(***************************************************************************)
EXTENDS Integers, Sequences, FiniteSets, TLC

\* ------------------------------------------------------------------ bounds
\* largest dataset length
MaxLen == 3
\* largest --start
MaxStart == 3
\* largest --max
MaxDocs == 3
\* largest --batch-size (its negation is the smallest)
MaxBatch == 2
\* most words in a sample text
MaxWords == 11
\* most word characters in a sample text
MaxChars == 100
\* longest tag list
MaxTags == 3

\* --------------------------------------------------------------- constants
TitleLimit == 100
TitleKeep == 97
TitleWords == 10
PadWidth == 5

None == "None"

\* an optional value of another type: Nothing is Python's None
Nothing == <<>>
Some(x) == <<x>>

Min(a, b) == IF a <= b THEN a ELSE b

\* ----------------------------------------------------------------- strings
Whitespace == {" ", "\t"}

Prefix == <<"G","e","r","m","a","n"," ","H","a","n","d","w","r","i","t","i","n","g",":"," ">>
SamplePrefix == <<"G","e","r","m","a","n"," ","H","a","n","d","w","r","i","t","i","n","g"," ","S","a","m","p","l","e"," ">>
Ellipsis == <<".", ".", ".">>

Take(s, n) == SubSeq(s, 1, Min(n, Len(s)))

SetMin(S) == CHOOSE x \in S : \A y \in S : x <= y
SetMax(S) == CHOOSE x \in S : \A y \in S : x >= y

\* positions of the characters that are not whitespace
Inked(s) == {k \in 1..Len(s) : s[k] \notin Whitespace}

\* str.strip(): drop leading and trailing whitespace
Strip(s) == IF Inked(s) = {} THEN <<>> ELSE SubSeq(s, SetMin(Inked(s)), SetMax(Inked(s)))

\* first positions of the maximal runs of non-whitespace characters
WordStarts(s) == {k \in Inked(s) : k = 1 \/ s[k - 1] \in Whitespace}

\* last position of the run that starts at k
WordEnd(s, k) == SetMin({e \in k..Len(s) : e = Len(s) \/ s[e + 1] \in Whitespace})

RECURSIVE WordsFrom(_, _)
WordsFrom(s, starts) ==
    IF starts = {} THEN <<>>
    ELSE LET k == SetMin(starts)
         IN <<SubSeq(s, k, WordEnd(s, k))>> \o WordsFrom(s, starts \ {k})

\* str.split() with no separator
Split(s) == WordsFrom(s, WordStarts(s))

\* ' '.join(words)
RECURSIVE Join(_)
Join(words) ==
    IF words = <<>> THEN <<>>
    ELSE IF Len(words) = 1 THEN words[1]
    ELSE words[1] \o <<" ">> \o Join(Tail(words))

Digit(d) == <<"0","1","2","3","4","5","6","7","8","9">>[d + 1]

RECURSIVE Decimal(_)
Decimal(n) == IF n < 10 THEN <<Digit(n)>> ELSE Append(Decimal(n \div 10), Digit(n % 10))

RECURSIVE ZeroPad(_, _)
ZeroPad(s, w) == IF Len(s) >= w THEN s ELSE ZeroPad(<<"0">> \o s, w)

\* f"{n:05d}" for n >= 0
Format05d(n) == ZeroPad(Decimal(n), PadWidth)

\* the title without the length limit of lines 242-243
MakeTitleUnlimited(text, j) ==
    IF text # <<>> /\ Len(text) > 0
    THEN Prefix \o Join(Take(Split(text), TitleWords))
    ELSE SamplePrefix \o Format05d(j + 1)

\* lines 238-245: the title of sample j from its stripped text
MakeTitleOf(text, j) ==
    IF text # <<>> /\ Len(text) > 0
    THEN LET words == Take(Split(text), TitleWords)
             title == Prefix \o Join(words)
         IN IF Len(title) > TitleLimit THEN Take(title, TitleKeep) \o Ellipsis ELSE title
    ELSE SamplePrefix \o Format05d(j + 1)

\* ------------------------------------------------------ environment inputs
Alphabet == <<"a","b","c","d","e","f","g","h","i","j","k","l","m",
              "n","o","p","q","r","s","t","u","v","w","x","y","z">>

WordLens == {1, 8, 40}
\* how a text is laid out: padding around it, separator between its words
Layouts == {[pad |-> <<>>, sep |-> <<" ">>], [pad |-> <<"\t", " ">>, sep |-> <<" ", "\t">>]}

\* the k-th word of a sample text: one letter, repeated
Word(k, len) == [x \in 1..len |-> Alphabet[((k - 1) % 26) + 1]]

RECURSIVE Words(_, _, _)
Words(n, len, sep) ==
    IF n = 0 THEN <<>>
    ELSE IF n = 1 THEN Word(1, len)
    ELSE Words(n - 1, len, sep) \o sep \o Word(n, len)

\* the transcriptions a dataset record can carry
SampleTexts ==
    {lay.pad \o Words(s.n, s.len, lay.sep) \o lay.pad :
        s \in {s \in [n : 0..MaxWords, len : WordLens] : s.n * s.len <= MaxChars},
        lay \in Layouts}

Absent == <<"<", "a", "b", "s", "e", "n", "t", ">">>
Null == <<"<", "n", "u", "l", "l", ">">>

\* the values sample.get('text', ...) can meet: a string, no 'text' key, or null
SampleFields == SampleTexts \cup {Absent, Null}

Urls == {<<"h","t","t","p",":","/","/","x">>,
         <<"h","t","t","p","s",":","/","/","x">>,
         <<"f","t","p",":","/","/","x">>,
         <<"x">>}

StartsWith(s, p) == Len(s) >= Len(p) /\ SubSeq(s, 1, Len(p)) = p

\* what response.json() / upload_document can hand back to the batch runner
TaskId == "task-id"
Unprintable == "task-id-with-lone-surrogate"
EmptyJson == ""
UploadResults == {TaskId, Unprintable, EmptyJson, None}

\* Python truthiness of an upload result
Truthy(r) == r # None /\ r # EmptyJson

NoException == "no exception"

\* ------------------------------------------------------------------- state
VARIABLES
    args,                \* parsed command line (argparse namespace)
    pc,                  \* position in main / process_handwriting_dataset
    exit_code,           \* Some(process exit code), Nothing while running
    run_state,           \* NotStarted, ConnectionVerified, Running, Completed, Aborted, Error
    success,             \* return value of process_handwriting_dataset
    confirmed,           \* the user answered y at the prompt
    dataset_len,         \* Some(len(dataset)), Nothing before the dataset is loaded
    successful_uploads,
    failed_uploads,
    end_index,
    i,                   \* outer loop variable
    batch_end,
    j,                   \* inner loop variable
    sample_text,         \* sample's 'text' field as fetched
    text,
    title,
    result,
    exc,                 \* the exception being handled, NoException otherwise
    log,                 \* observable events, in order: <<kind, number>>
    form_in,             \* upload_document called on its own: its arguments
    form_pc,             \* position in upload_document
    form_data,           \* the dict data, as its items in insertion order
    form_k,              \* number of tags the loop of line 106 has visited
    form_result          \* what upload_document returns

mvars == <<args, pc, exit_code, run_state, success, confirmed, dataset_len,
           successful_uploads, failed_uploads, end_index, i, batch_end, j,
           sample_text, text, title, result, exc, log>>
fvars == <<form_in, form_pc, form_data, form_k, form_result>>
vars == <<mvars, fvars>>

Event(kind, n) == <<kind, n>>
Emit(kind, n) == log' = Append(log, Event(kind, n))

\* lines 332-342 of main
ArgsRejected(a) ==
    \/ ~(StartsWith(a.url, <<"h","t","t","p",":","/","/">>)
         \/ StartsWith(a.url, <<"h","t","t","p","s",":","/","/">>))
    \/ a.max <= 0
    \/ a.start < 0

ArgSpace ==
    [url : Urls, max : -1..MaxDocs, start : -1..MaxStart,
     batch_size : -MaxBatch..MaxBatch, dry_run : BOOLEAN]

MainIdle ==
    /\ pc = "main"
    /\ exit_code = Nothing
    /\ run_state = "NotStarted"
    /\ success = FALSE
    /\ confirmed = FALSE
    /\ dataset_len = Nothing
    /\ successful_uploads = 0
    /\ failed_uploads = 0
    /\ end_index = 0
    /\ i = 0
    /\ batch_end = 0
    /\ j = 0
    /\ sample_text = <<>>
    /\ text = <<>>
    /\ title = <<>>
    /\ result = None
    /\ exc = NoException
    /\ log = <<>>

FormIdle ==
    /\ form_in = [tags |-> Nothing, document_type |-> Nothing, correspondent |-> Nothing]
    /\ form_pc = "idle"
    /\ form_data = <<>>
    /\ form_k = 0
    /\ form_result = None

Init ==
    /\ args \in ArgSpace
    /\ MainIdle
    /\ FormIdle

Exit(code) ==
    /\ exit_code' = Some(code)
    /\ pc' = "exited"

\* main, lines 329-357: argument validation
Validate ==
    /\ pc = "main"
    /\ IF ArgsRejected(args)
       THEN Exit(1)
       ELSE /\ pc' = IF args.dry_run THEN "dry_run" ELSE "confirm"
            /\ UNCHANGED exit_code
    /\ UNCHANGED fvars
    /\ UNCHANGED <<exc, args, run_state, success, confirmed, dataset_len, successful_uploads,
                   failed_uploads, end_index, i, batch_end, j, sample_text, text, title, result, log>>

\* main, lines 359-368: --dry-run only probes the connection
DryRun ==
    /\ pc = "dry_run"
    /\ \E ok \in BOOLEAN :
         /\ Emit("probe", IF ok THEN 1 ELSE 0)
         /\ Exit(IF ok THEN 0 ELSE 1)
    /\ UNCHANGED fvars
    /\ UNCHANGED <<exc, args, run_state, success, confirmed, dataset_len, successful_uploads,
                   failed_uploads, end_index, i, batch_end, j, sample_text, text, title, result>>

\* main, lines 370-381: the confirmation prompt
Confirm ==
    /\ pc = "confirm"
    /\ \E yes \in BOOLEAN :
         /\ confirmed' = yes
         /\ IF yes
            THEN pc' = "test_connection" /\ UNCHANGED exit_code
            ELSE Exit(0)
    /\ UNCHANGED fvars
    /\ UNCHANGED <<exc, args, run_state, success, dataset_len, successful_uploads,
                   failed_uploads, end_index, i, batch_end, j, sample_text, text, title, result, log>>

\* a runner that goes on whatever the probe says
ConnectionNeverRefused(ok) == FALSE

\* line 184: the run stops unless the probe succeeded
ConnectionRefused(ok) == ~ok

\* process_handwriting_dataset, lines 180-186
TestConnection ==
    /\ pc = "test_connection"
    /\ \E ok \in BOOLEAN :
         /\ Emit("probe", IF ok THEN 1 ELSE 0)
         /\ IF ~ConnectionRefused(ok)
            THEN /\ run_state' = "ConnectionVerified"
                 /\ pc' = "load_dataset"
                 /\ UNCHANGED success
            ELSE /\ run_state' = "Aborted"
                 /\ success' = FALSE
                 /\ pc' = "main_result"
    /\ UNCHANGED fvars
    /\ UNCHANGED <<exc, args, exit_code, confirmed, dataset_len, successful_uploads,
                   failed_uploads, end_index, i, batch_end, j, sample_text, text, title, result>>

\* lines 188-206: load the dataset, reset the tally, compute end_index
LoadDataset ==
    /\ pc = "load_dataset"
    /\ Emit("load", 0)
    /\ \/ /\ pc' = "outer_except"          \* load_dataset raised
          /\ exc' = "load_dataset failed"
          /\ UNCHANGED <<run_state, dataset_len, successful_uploads, failed_uploads,
                         end_index, i>>
       \/ \E n \in 0..MaxLen :
            /\ dataset_len' = Some(n)
            /\ successful_uploads' = 0
            /\ failed_uploads' = 0
            /\ end_index' = Min(args.start + args.max, n)
            /\ i' = args.start
            /\ run_state' = "Running"
            /\ pc' = "batch_loop"
            /\ UNCHANGED exc
    /\ UNCHANGED fvars
    /\ UNCHANGED <<args, exit_code, success, confirmed, batch_end, j, sample_text, text, title, result>>

\* whether range(start, stop, step) still yields the value v
InRange(v, stop, step) == IF step > 0 THEN v < stop ELSE v > stop

\* a batch end that is not cut at end_index
BatchEndUnclamped(first, size, stop) == first + size

\* line 209
BatchEnd(first, size, stop) == Min(first + size, stop)

\* lines 208-210: head of the batch loop
BatchLoop ==
    /\ pc = "batch_loop"
    /\ IF args.batch_size = 0
       THEN /\ pc' = "outer_except"        \* range() arg 3 must not be zero
            /\ exc' = "ValueError"
            /\ UNCHANGED <<batch_end, j, log>>
       ELSE IF InRange(i, end_index, args.batch_size)
       THEN /\ batch_end' = BatchEnd(i, args.batch_size, end_index)
            /\ j' = i
            /\ Emit("batch", i)
            /\ pc' = "item_loop"
            /\ UNCHANGED exc
       ELSE /\ pc' = "summary"
            /\ UNCHANGED <<batch_end, j, log, exc>>
    /\ UNCHANGED fvars
    /\ UNCHANGED <<args, exit_code, run_state, success, confirmed, dataset_len,
                   successful_uploads, failed_uploads, end_index, i, sample_text, text, title, result>>

\* line 212: head of the item loop
ItemLoop ==
    /\ pc = "item_loop"
    /\ pc' = IF j < batch_end THEN "fetch" ELSE "batch_done"
    /\ UNCHANGED fvars
    /\ UNCHANGED <<exc, args, exit_code, run_state, success, confirmed, dataset_len,
                   successful_uploads, failed_uploads, end_index, i, batch_end, j,
                   sample_text, text, title, result, log>>

\* sample.get('text', '').strip(), line 218; Null has no strip()
TextRaises(field) == field = Null
TextOf(field) == IF field = Absent THEN <<>> ELSE Strip(field)

\* a loop body without its own try: exceptions reach the outer handler
ItemHandlerOuter == "outer_except"

\* lines 213 and 267: where an exception raised by the loop body lands
ItemHandler == "except"

\* lines 213-218: fetch the sample and its text
Fetch ==
    /\ pc = "fetch"
    /\ Emit("attempt", j)
    /\ \/ /\ pc' = ItemHandler             \* dataset[j] or sample['image'] raised
          /\ exc' = "sample unavailable"
          /\ UNCHANGED <<sample_text, text>>
       \/ \E field \in SampleFields :
            /\ sample_text' = field
            /\ IF TextRaises(field)
               THEN pc' = ItemHandler /\ exc' = "AttributeError" /\ UNCHANGED text
               ELSE pc' = "save_image" /\ text' = TextOf(field) /\ UNCHANGED exc
    /\ UNCHANGED fvars
    /\ UNCHANGED <<args, exit_code, run_state, success, confirmed, dataset_len,
                   successful_uploads, failed_uploads, end_index, i, batch_end, j,
                   title, result>>

\* lines 220-235: convert and save the image as JPEG
SaveImage ==
    /\ pc = "save_image"
    /\ \/ pc' = ItemHandler /\ exc' = "image not saved"    \* decoding or encoding raised
       \/ pc' = "make_title" /\ UNCHANGED exc
    /\ UNCHANGED fvars
    /\ UNCHANGED <<args, exit_code, run_state, success, confirmed, dataset_len,
                   successful_uploads, failed_uploads, end_index, i, batch_end, j,
                   sample_text, text, title, result, log>>

\* lines 237-245
MakeTitle ==
    /\ pc = "make_title"
    /\ title' = MakeTitleOf(text, j)
    /\ pc' = "upload"
    /\ UNCHANGED fvars
    /\ UNCHANGED <<exc, args, exit_code, run_state, success, confirmed, dataset_len,
                   successful_uploads, failed_uploads, end_index, i, batch_end, j,
                   sample_text, text, result, log>>

\* lines 247-254: one call of upload_document; it never raises (lines 125-127)
Upload ==
    /\ pc = "upload"
    /\ Emit("upload", j)
    /\ result' \in UploadResults
    /\ pc' = "report"
    /\ UNCHANGED fvars
    /\ UNCHANGED <<exc, args, exit_code, run_state, success, confirmed, dataset_len,
                   successful_uploads, failed_uploads, end_index, i, batch_end, j,
                   sample_text, text, title>>

\* print(f"... (Task: {task_id})") raises when the task id cannot be encoded
PrintRaises(r) == r = Unprintable

\* lines 256-262: count the item and print its line
Report ==
    /\ pc = "report"
    /\ IF Truthy(result)
       THEN /\ successful_uploads' = successful_uploads + 1
            /\ UNCHANGED failed_uploads
            /\ IF PrintRaises(result)
               THEN pc' = ItemHandler /\ exc' = "UnicodeEncodeError" /\ UNCHANGED log
               ELSE pc' = "pause" /\ Emit("item_ok", j) /\ UNCHANGED exc
       ELSE /\ failed_uploads' = failed_uploads + 1
            /\ UNCHANGED <<successful_uploads, exc>>
            /\ Emit("item_failed", j)
            /\ pc' = "pause"
    /\ UNCHANGED fvars
    /\ UNCHANGED <<args, exit_code, run_state, success, confirmed, dataset_len,
                   end_index, i, batch_end, j, sample_text, text, title, result>>

\* the state of the loop body is dead once the item is over
NextItem ==
    /\ j' = j + 1
    /\ sample_text' = <<>>
    /\ text' = <<>>
    /\ title' = <<>>
    /\ result' = None
    /\ exc' = NoException
    /\ pc' = "item_loop"

\* lines 264-265: time.sleep(0.1)
Pause ==
    /\ pc = "pause"
    /\ Emit("sleep_item", j)
    /\ NextItem
    /\ UNCHANGED fvars
    /\ UNCHANGED <<args, exit_code, run_state, success, confirmed, dataset_len,
                   successful_uploads, failed_uploads, end_index, i, batch_end>>

\* lines 267-270: the per-item exception handler
Except ==
    /\ pc = "except"
    /\ Emit("item_error", j)
    /\ failed_uploads' = failed_uploads + 1
    /\ NextItem
    /\ UNCHANGED fvars
    /\ UNCHANGED <<args, exit_code, run_state, success, confirmed, dataset_len,
                   successful_uploads, end_index, i, batch_end>>

\* lines 272-279: progress line and the pause between batches
BatchDone ==
    /\ pc = "batch_done"
    /\ log' = log \o <<Event("progress", batch_end)>>
               \o (IF batch_end < end_index THEN <<Event("sleep_batch", batch_end)>> ELSE <<>>)
    /\ i' = i + args.batch_size
    /\ pc' = "batch_loop"
    /\ UNCHANGED fvars
    /\ UNCHANGED <<exc, args, exit_code, run_state, success, confirmed, dataset_len,
                   successful_uploads, failed_uploads, end_index, batch_end, j,
                   sample_text, text, title, result>>

\* lines 281-294: the final summary; line 288 divides by the number processed
Summary ==
    /\ pc = "summary"
    /\ IF successful_uploads + failed_uploads = 0
       THEN /\ log' = Append(log, Event("print_tally", 0))
            /\ pc' = "outer_except"
            /\ exc' = "ZeroDivisionError"
            /\ UNCHANGED <<run_state, success>>
       ELSE /\ log' = log \o <<Event("print_tally", successful_uploads + failed_uploads),
                               Event("print_rate",
                                     (successful_uploads * 100)
                                        \div (successful_uploads + failed_uploads))>>
            /\ success' = (successful_uploads > 0)
            /\ run_state' = "Completed"
            /\ pc' = "main_result"
            /\ UNCHANGED exc
    /\ UNCHANGED fvars
    /\ UNCHANGED <<args, exit_code, confirmed, dataset_len, successful_uploads,
                   failed_uploads, end_index, i, batch_end, j, sample_text, text, title, result>>

\* lines 296-298: the outer handler
OuterExcept ==
    /\ pc = "outer_except"
    /\ success' = FALSE
    /\ run_state' = "Error"
    /\ exc' = NoException
    /\ pc' = "main_result"
    /\ UNCHANGED fvars
    /\ UNCHANGED <<args, exit_code, confirmed, dataset_len, successful_uploads,
                   failed_uploads, end_index, i, batch_end, j, sample_text, text, title, result, log>>

\* main, lines 394-399
MainResult ==
    /\ pc = "main_result"
    /\ Exit(IF success THEN 0 ELSE 1)
    /\ UNCHANGED fvars
    /\ UNCHANGED <<exc, args, run_state, success, confirmed, dataset_len, successful_uploads,
                   failed_uploads, end_index, i, batch_end, j, sample_text, text, title, result, log>>

\* ------------------------------------------- upload_document on its own
\* largest tag id
MaxTagId == 3
TagLists == UNION {[1..n -> 1..MaxTagId] : n \in 0..MaxTags}
OptionalIds == {Nothing, Some(0), Some(1), Some(12)}

FormInputs ==
    [tags : {Some(t) : t \in TagLists} \cup {Nothing},
     document_type : OptionalIds, correspondent : OptionalIds]

\* Python truthiness of an optional int / an optional list
TruthyId(x) == x # Nothing /\ x[1] # 0
TruthyList(x) == x # Nothing /\ x[1] # <<>>

\* data[key] = value on a dict kept as its items in insertion order
DictSet(d, key, value) ==
    IF \E n \in 1..Len(d) : d[n][1] = key
    THEN [n \in 1..Len(d) |-> IF d[n][1] = key THEN <<key, value>> ELSE d[n]]
    ELSE Append(d, <<key, value>>)

\* the values of the form fields requests sends under the name key, in order
FieldValues(d, key) ==
    LET at == {n \in 1..Len(d) : d[n][1] = key}
        F[S \in SUBSET at] ==
            IF S = {} THEN <<>> ELSE <<d[SetMin(S)][2]>> \o F[S \ {SetMin(S)}]
    IN F[at]

NoArgs == [url |-> <<>>, max |-> 0, start |-> 0, batch_size |-> 0, dry_run |-> FALSE]

FormInit ==
    /\ args = NoArgs
    /\ MainIdle
    /\ form_in \in FormInputs
    /\ form_pc = "prepare"
    /\ form_data = <<>>
    /\ form_k = 0
    /\ form_result = None

\* lines 93-103: title, created and the optional ids
FormPrepare ==
    /\ form_pc = "prepare"
    /\ LET base == <<<<"title", <<"t">>>>, <<"created", <<"d">>>>>>
           withType == IF TruthyId(form_in.document_type)
                       THEN DictSet(base, "document_type", Decimal(form_in.document_type[1]))
                       ELSE base
           withBoth == IF TruthyId(form_in.correspondent)
                       THEN DictSet(withType, "correspondent", Decimal(form_in.correspondent[1]))
                       ELSE withType
       IN form_data' = withBoth
    /\ form_pc' = IF TruthyList(form_in.tags) THEN "tags" ELSE "post"
    /\ UNCHANGED <<form_in, form_k, form_result>>
    /\ UNCHANGED mvars

\* lines 106-107: one iteration of the tag loop
FormTag ==
    /\ form_pc = "tags"
    /\ form_data' = DictSet(form_data, "tags", Decimal(form_in.tags[1][form_k + 1]))
    /\ form_k' = form_k + 1
    /\ form_pc' = IF form_k + 1 < Len(form_in.tags[1]) THEN "tags" ELSE "post"
    /\ UNCHANGED <<form_in, form_result>>
    /\ UNCHANGED mvars

\* lines 109-127: the request and its outcome
FormPost ==
    /\ form_pc = "post"
    /\ form_result' \in {TaskId, None}
    /\ form_pc' = "posted"
    /\ UNCHANGED <<form_in, form_data, form_k>>
    /\ UNCHANGED mvars

FormNext ==
    \/ FormPrepare
    \/ FormTag
    \/ FormPost

SpecForm == FormInit /\ [][FormNext]_vars

Next ==
    \/ Validate
    \/ DryRun
    \/ Confirm
    \/ TestConnection
    \/ LoadDataset
    \/ BatchLoop
    \/ ItemLoop
    \/ Fetch
    \/ SaveImage
    \/ MakeTitle
    \/ Upload
    \/ Report
    \/ Pause
    \/ Except
    \/ BatchDone
    \/ Summary
    \/ OuterExcept
    \/ MainResult

Spec == Init /\ [][Next]_vars

\* -------------------------------------------------------------- properties
\* positions of the events of one kind, and their numbers in order
At(kind) == {k \in 1..Len(log) : log[k][1] = kind}
Numbers(kind) ==
    LET picked == SelectSeq(log, LAMBDA e : e[1] = kind)
    IN [k \in 1..Len(picked) |-> picked[k][2]]
Has(kind) == At(kind) # {}

Attempted == Numbers("attempt")
Uploaded == Numbers("upload")

Loaded == dataset_len # Nothing
\* the batch loop is over
LoopDone == pc = "summary" \/ Has("print_tally")
Exited == pc = "exited"

\* the half-open interval of indices the run is asked to process
RangeStop == Min(args.start + args.max, dataset_len[1])
RangeSize == IF RangeStop > args.start THEN RangeStop - args.start ELSE 0

\* section 6 of the specification: what makes a command line invalid
ArgsInvalid(a) == ArgsRejected(a) \/ a.batch_size <= 0

\* C1: with a positive batch size the indices attempted are start, start+1, ...
\* in ascending order without gaps or repeats, none at or past
\* min(start+max, datasetLength); once the loop is over all of them were
\* attempted; upload_document is called at most once per index and only for
\* the index being attempted.
C1_AttemptsAreTheRange ==
    (Loaded /\ args.batch_size > 0) =>
        /\ args.start >= 0 /\ args.max > 0
        /\ \A k \in 1..Len(Attempted) :
             Attempted[k] = args.start + k - 1 /\ Attempted[k] < RangeStop
        /\ LoopDone => Len(Attempted) = RangeSize
        /\ \A a, b \in At("upload") : a # b => log[a][2] # log[b][2]
        /\ \A u \in At("upload") :
             \E a \in At("attempt") :
                /\ a < u
                /\ log[a][2] = log[u][2]
                /\ \A m \in (a + 1)..(u - 1) : log[m][1] # "attempt"

\* C1 witness: a finished run over two batches whose range was cut by the
\* dataset length (start 1, max 3, length 3), with a success and a failure.
C1_Witness ==
    /\ Exited
    /\ args.start = 1 /\ args.max = 3 /\ args.batch_size = 1
    /\ dataset_len = Some(3)
    /\ Attempted = <<1, 2>>
    /\ successful_uploads = 1
    /\ failed_uploads = 1

\* C2: between two items successful + failed equals the number of indices
\* attempted so far.
C2_TallyCountsAttempts ==
    (Loaded /\ pc \in {"item_loop", "batch_done", "batch_loop", "summary"}) =>
        successful_uploads + failed_uploads = Len(Attempted)

\* C3: once the dataset is loaded (and the batch size is positive) a finished
\* run went through the final summary: it is Completed and printed the
\* success rate, also when no item was attempted.
C3_SummaryAlwaysPrinted ==
    (Exited /\ Loaded /\ args.batch_size > 0) =>
        run_state = "Completed" /\ Has("print_rate")

\* C4: the exit code is 1 exactly when the arguments are invalid, the probe
\* failed, or a confirmed, connected run ended with no successful upload;
\* it is 0 otherwise.
C4_ExitCode ==
    Exited =>
        (exit_code = Some(1)
            <=> \/ ArgsInvalid(args)
                \/ Event("probe", 0) \in {log[k] : k \in 1..Len(log)}
                \/ /\ confirmed
                   /\ Has("probe")
                   /\ successful_uploads = 0)
        /\ exit_code \in {Some(0), Some(1)}

\* C5: every upload call follows a successful probe of the same run, in a run
\* that is not a dry run and that the user confirmed; after a failed probe
\* there is no dataset load, no attempt and no upload, and the run is Aborted;
\* a dry run never loads and never uploads.
C5_UploadOnlyAfterProbe ==
    /\ \A u \in At("upload") :
          /\ \E q \in At("probe") : q < u /\ log[q][2] = 1
          /\ ~args.dry_run
          /\ confirmed
    /\ (\E q \in At("probe") : log[q][2] = 0) =>
          /\ ~Has("load") /\ ~Has("attempt") /\ ~Has("upload")
          /\ ~Loaded
          /\ ~args.dry_run => (pc \in {"main_result", "exited"} /\ run_state = "Aborted")
    /\ args.dry_run => (~Has("load") /\ ~Has("upload") /\ run_state = "NotStarted")

\* C5 witness: two uploads were made, after a successful probe.
C5_Witness ==
    /\ Len(Uploaded) >= 2
    /\ log[1] = Event("probe", 1)
    /\ confirmed

\* C6: with an invalid command line (section 6: bad url, max <= 0, start < 0
\* or batch size <= 0) validation ends the process with exit code 1, and
\* there is no network activity (no probe, no dataset load, no upload).
C6_InvalidArgsNoNetwork ==
    ArgsInvalid(args) =>
        /\ ~Has("probe") /\ ~Has("load") /\ ~Has("upload")
        /\ pc # "main" => (Exited /\ exit_code = Some(1))

\* C7: an item that fails (an exception of the loop body, or an upload that
\* returns nothing usable) is counted as failed once, and the run goes on: a
\* finished run in which an item was attempted is Completed, never in the
\* outer error path, and attempted every index of the range after it.
C7_ItemFailureIsLocal ==
    /\ (Loaded /\ pc \in {"item_loop", "batch_done", "batch_loop", "summary",
                          "main_result", "exited"}) =>
          failed_uploads = Cardinality(At("item_error")) + Cardinality(At("item_failed"))
    /\ (Has("item_error") \/ Has("item_failed")) =>
          /\ pc # "outer_except"
          /\ run_state \in {"Running", "Completed"}
          /\ LoopDone => \A f \in At("item_error") \cup At("item_failed") :
                            \A n \in (log[f][2] + 1)..(RangeStop - 1) :
                               \E a \in At("attempt") : a > f /\ log[a][2] = n
          /\ Exited => run_state = "Completed"

\* C7 witness: the first item of a three-item run raised, the second upload
\* returned nothing, the third item (in a later batch) succeeded, and the run
\* completed.
C7_Witness ==
    /\ Exited
    /\ run_state = "Completed"
    /\ args.batch_size = 2
    /\ Attempted = <<0, 1, 2>>
    /\ Numbers("item_error") = <<0>>
    /\ Numbers("item_failed") = <<1>>
    /\ Numbers("item_ok") = <<2>>

\* C8: the posted form carries one tags field per tag id, in order.
C8_OneFieldPerTag ==
    (form_pc = "posted" /\ TruthyList(form_in.tags)) =>
        FieldValues(form_data, "tags")
            = [k \in 1..Len(form_in.tags[1]) |-> Decimal(form_in.tags[1][k])]

\* an empty, whitespace-only or absent text field
Blank(field) == field = Absent \/ \A k \in 1..Len(field) : field[k] \in Whitespace

\* n written with five digits
FiveDigits(n) ==
    <<Digit((n \div 10000) % 10), Digit((n \div 1000) % 10), Digit((n \div 100) % 10),
      Digit((n \div 10) % 10), Digit(n % 10)>>

C10_Pacing ==
    (args.batch_size > 0) =>
        /\ \A a, b \in At("attempt") :
              a < b => \E p \in At("sleep_item") : a < p /\ p < b
        /\ LoopDone => \A a \in At("attempt") : \E p \in At("sleep_item") : a < p
        /\ LoopDone => \A g \in At("progress") :
              (g < Len(log) /\ log[g + 1][1] = "sleep_batch")
                  <=> (\E h \in At("progress") : h > g)

====
